---- MODULE Spec2Model ----
(***************************************************************************)
(* A model of src/pytorch/util.py of WeatherBench:                         *)
(*   init_torch_device  - selects the device and the default tensor type   *)
(*   load_data          - resolves year ranges to index windows on the     *)
(*                        merged time axis and builds three dataset views  *)
(*   named_network      - name-keyed construction of a model               *)
(* Each function is a state machine of its own (SpecDevice, SpecIdx,       *)
(* SpecLoad, SpecNet); the variables of the other functions stay idle.     *)
(***************************************************************************)
EXTENDS Integers, Sequences, FiniteSets, TLC

VARIABLES
    \* closure environment of load_data.get_year_idx
    chunks,              \* x.chunks['time']: timesteps per year, from 1979 on
    lead_time,
    past_times,          \* a list of offsets
    \* one call get_year_idx(yrs)
    yrs, idx, idx_raised, idx_called,
    \* load_data
    pc, mmap_mode, train_years, validation_years, test_years,
    start, end, dg_train, dg_validation, dg_test, opened,
    \* named_network
    model_name, n_input_channels, n_output_channels, kwargs,
    net_pc, net_raised, constructed, returned,
    \* init_torch_device
    device, default_tensor_type, stdout

envVars    == <<chunks, lead_time, past_times>>
idxVars    == <<yrs, idx, idx_raised, idx_called>>
loadVars   == <<pc, mmap_mode, train_years, validation_years, test_years,
                start, end, dg_train, dg_validation, dg_test, opened>>
netVars    == <<model_name, n_input_channels, n_output_channels, kwargs,
                net_pc, net_raised, constructed, returned>>
deviceVars == <<device, default_tensor_type, stdout>>
vars       == <<envVars, idxVars, loadVars, netVars, deviceVars>>

\* Python's None, and a Python string (told apart from None: mmap_mode may be
\* the string 'None')
None == [none |-> TRUE]
Str(s) == [str |-> s]

(***************************************************************************)
(* Bounds of the model.                                                    *)
(***************************************************************************)
NumYears == 3          \* years with a chunk: Epoch .. Epoch + NumYears - 1
MaxChunk == 9          \* the larger of the two chunk sizes tried
MaxLead  == 6          \* the largest lead_time tried
MaxPast  == 2          \* the deepest look-back tried
MaxCalls == 6          \* calls of init_torch_device in one process
MaxChannels == 2       \* channel counts tried for named_network

\* the epoch year baked into get_year_idx
Epoch == 1979

ChunkSizes == {1, MaxChunk}
ChunkSeqs  == [1..NumYears -> ChunkSizes]
LeadTimes  == {0, 1, MaxLead}
PastTimesLists == {<<>>, <<0>>, <<-1>>, [j \in 1..(MaxPast + 1) |-> j - MaxPast - 1]}
IndexedYears == Epoch..(Epoch + NumYears - 1)
\* years a caller may ask for: two before the epoch to one past the index
AskedYears == (Epoch - 2)..(Epoch + NumYears)

(***************************************************************************)
(* Python and numpy primitives used by get_year_idx.                       *)
(***************************************************************************)
\* the stop position of the slice s[:k] of a list of length n
PySliceStop(n, k) ==
    IF k < 0 THEN (IF n + k < 0 THEN 0 ELSE n + k)
             ELSE (IF k > n THEN n ELSE k)

\* s[:k]
PySlicePrefix(s, k) == SubSeq(s, 1, PySliceStop(Len(s), k))

RECURSIVE NpSum(_)
NpSum(s) == IF s = <<>> THEN 0 ELSE Head(s) + NpSum(Tail(s))

RECURSIVE NpMin(_)
NpMin(s) ==
    IF Len(s) = 1 THEN s[1]
    ELSE LET m == NpMin(Tail(s)) IN IF Head(s) < m THEN Head(s) ELSE m

(***************************************************************************)
(* get_year_idx(yrs), lines 37-40.  The comprehension sums a prefix slice  *)
(* for every element of yrs (element i with boundary yr - 1979 + i); the   *)
(* second line reads idx[0] and idx[1] and raises IndexError on a list     *)
(* shorter than two.                                                       *)
(***************************************************************************)
\* faulty variant: lead_time is not taken off idx_end
GetYearIdxNoLead(ch, lt, pt, ys) ==
    LET sums == [j \in 1..Len(ys) |->
                    NpSum(PySlicePrefix(ch, ys[j] - Epoch + (j - 1)))]
    IN  IF Len(ys) < 2
        THEN [raised |-> "IndexError", idx |-> <<>>]
        ELSE [raised |-> "none",
              idx |-> <<sums[1] - NpMin(pt \o <<0>>), sums[2]>>]

\* faulty variant: the runway is taken off idx_start instead of added
GetYearIdxRunwaySign(ch, lt, pt, ys) ==
    LET sums == [j \in 1..Len(ys) |->
                    NpSum(PySlicePrefix(ch, ys[j] - Epoch + (j - 1)))]
    IN  IF Len(ys) < 2
        THEN [raised |-> "IndexError", idx |-> <<>>]
        ELSE [raised |-> "none",
              idx |-> <<sums[1] + NpMin(pt \o <<0>>), sums[2] - lt>>]

\* faulty variant: the runway is reserved only for a window starting at the epoch
GetYearIdxFirstOnly(ch, lt, pt, ys) ==
    LET sums == [j \in 1..Len(ys) |->
                    NpSum(PySlicePrefix(ch, ys[j] - Epoch + (j - 1)))]
    IN  IF Len(ys) < 2
        THEN [raised |-> "IndexError", idx |-> <<>>]
        ELSE [raised |-> "none",
              idx |-> <<sums[1] - (IF ys[1] = Epoch THEN NpMin(pt \o <<0>>) ELSE 0),
                        sums[2] - lt>>]

\* faulty variant: the boundary index omits the + i of enumerate
GetYearIdxSameBoundary(ch, lt, pt, ys) ==
    LET sums == [j \in 1..Len(ys) |->
                    NpSum(PySlicePrefix(ch, ys[j] - Epoch))]
    IN  IF Len(ys) < 2
        THEN [raised |-> "IndexError", idx |-> <<>>]
        ELSE [raised |-> "none",
              idx |-> <<sums[1] - NpMin(pt \o <<0>>), sums[2] - lt>>]

GetYearIdx(ch, lt, pt, ys) ==
    LET sums == [j \in 1..Len(ys) |->
                    NpSum(PySlicePrefix(ch, ys[j] - Epoch + (j - 1)))]
    IN  IF Len(ys) < 2
        THEN [raised |-> "IndexError", idx |-> <<>>]
        ELSE [raised |-> "none",
              idx |-> <<sums[1] - NpMin(pt \o <<0>>), sums[2] - lt>>]

(***************************************************************************)
(* Idle values of the variables a specification does not use.              *)
(***************************************************************************)
IdleEnv ==
    /\ chunks = <<>>
    /\ lead_time = 0
    /\ past_times = <<>>

IdleIdx ==
    /\ yrs = <<>>
    /\ idx = <<>>
    /\ idx_raised = "none"
    /\ idx_called = FALSE

IdleLoad ==
    /\ pc = "idle"
    /\ mmap_mode = None
    /\ train_years = <<>>
    /\ validation_years = <<>>
    /\ test_years = <<>>
    /\ start = None
    /\ end = None
    /\ dg_train = None
    /\ dg_validation = None
    /\ dg_test = None
    /\ opened = <<>>

IdleNet ==
    /\ model_name = "unset"
    /\ n_input_channels = 0
    /\ n_output_channels = 0
    /\ kwargs = None
    /\ net_pc = "idle"
    /\ net_raised = "none"
    /\ constructed = <<>>
    /\ returned = None

IdleDevice ==
    /\ device = "unset"
    /\ default_tensor_type = "torch.FloatTensor"
    /\ stdout = <<>>

(***************************************************************************)
(* SpecIdx: one call of get_year_idx on any year list of one to three      *)
(* years, in range or not.                                                 *)
(***************************************************************************)
YearLists == UNION {[1..n -> AskedYears] : n \in 1..3}

InitIdx ==
    /\ chunks \in ChunkSeqs
    /\ lead_time \in LeadTimes
    /\ past_times \in PastTimesLists
    /\ yrs \in YearLists
    /\ idx = <<>>
    /\ idx_raised = "none"
    /\ idx_called = FALSE
    /\ IdleLoad /\ IdleNet /\ IdleDevice

CallGetYearIdx ==
    /\ ~idx_called
    /\ LET r == GetYearIdx(chunks, lead_time, past_times, yrs)
       IN  /\ idx' = r.idx
           /\ idx_raised' = r.raised
    /\ idx_called' = TRUE
    /\ UNCHANGED <<envVars, yrs, loadVars, netVars, deviceVars>>

NextIdx == CallGetYearIdx

SpecIdx == InitIdx /\ [][NextIdx]_vars

(***************************************************************************)
(* Reference quantities on the merged time axis, stated by calendar year.  *)
(***************************************************************************)
InRange(y) == Epoch <= y /\ y <= Epoch + Len(chunks) - 1

ChunkOfYear(y) == chunks[y - Epoch + 1]

\* timesteps of all indexed years strictly before year y
RECURSIVE StepsBefore(_)
StepsBefore(y) == IF y <= Epoch THEN 0 ELSE StepsBefore(y - 1) + ChunkOfYear(y - 1)

AxisLength == StepsBefore(Epoch + Len(chunks))

PastOffsets == {past_times[j] : j \in DOMAIN past_times}

\* the look-back reserved at the start of a window: -min(past_times + [0])
Runway ==
    LET S == PastOffsets \cup {0}
    IN  0 - (CHOOSE m \in S : \A e \in S : m <= e)

ResolvedRange ==
    /\ idx_called
    /\ Len(yrs) = 2
    /\ InRange(yrs[1])
    /\ InRange(yrs[2])

\* C1: every sample index i of a window resolved for an in-range, ordered
\* two-year range can reference i + p for every past offset p and
\* i + lead_time inside [0, axis_length).
C1_BoundsSafety ==
    (ResolvedRange /\ yrs[1] <= yrs[2]) =>
        /\ idx_raised = "none"
        /\ \A i \in idx[1]..(idx[2] - 1) :
              /\ \A p \in PastOffsets : 0 <= i + p /\ i + p < AxisLength
              /\ 0 <= i + lead_time /\ i + lead_time < AxisLength

\* a non-empty window resolved with past_times = [-2, -1, 0] and lead_time = 6
C1_Witness ==
    /\ ResolvedRange /\ yrs[1] <= yrs[2]
    /\ past_times = <<-2, -1, 0>>
    /\ lead_time = 6
    /\ idx[1] < idx[2]

\* C2: a two-element year list holding a year before the epoch or past the
\* last indexed year ends in a "year out of range" error and yields no pair.
C2_OutOfRangeRejected ==
    (idx_called /\ Len(yrs) = 2 /\ (~InRange(yrs[1]) \/ ~InRange(yrs[2]))) =>
        /\ idx_raised = "YearOutOfRange"
        /\ idx = <<>>

\* C4 as written: for the single-year range [Y, Y] the window length is
\* c_Y - lead_time, less the runway only when Y is the first year of the index.
C4_RunwayOnlyAtOrigin ==
    (ResolvedRange /\ yrs[1] = yrs[2]) =>
        idx[2] - idx[1] =
            ChunkOfYear(yrs[1]) - lead_time - (IF yrs[1] = Epoch THEN Runway ELSE 0)

\* C4 as amended: for the single-year range [Y, Y] the window length is
\* c_Y - lead_time - runway for every indexed year Y, first or later.
C4_SingleYearLength ==
    (ResolvedRange /\ yrs[1] = yrs[2]) =>
        /\ idx_raised = "none"
        /\ idx[2] - idx[1] = ChunkOfYear(yrs[1]) - lead_time - Runway

\* a single-year window of a later year with a non-zero runway
C4_Witness ==
    /\ ResolvedRange /\ yrs[1] = yrs[2]
    /\ yrs[1] > Epoch
    /\ Runway > 0
    /\ idx_raised = "none"

\* C5: for an in-range [yr_start, yr_end], idx_start is the timesteps of all
\* years strictly before yr_start minus min(past_times + [0]), idx_end is the
\* timesteps of all years up to and including yr_end minus lead_time; a third
\* element of the year list changes nothing.
C5_OffsetFormula ==
    (idx_called /\ Len(yrs) >= 2 /\ InRange(yrs[1]) /\ InRange(yrs[2])) =>
        /\ idx_raised = "none"
        /\ idx = <<StepsBefore(yrs[1]) + Runway,
                   StepsBefore(yrs[2] + 1) - lead_time>>

\* a three-element list whose first two years are in range and whose third
\* is not, resolved with a runway and a lead time
C5_Witness ==
    /\ idx_called
    /\ Len(yrs) = 3
    /\ InRange(yrs[1]) /\ InRange(yrs[2]) /\ ~InRange(yrs[3])
    /\ yrs[1] > Epoch
    /\ Runway > 0 /\ lead_time > 0
    /\ idx_raised = "none"

(***************************************************************************)
(* SpecDevice: init_torch_device, lines 7-16, called any number of times   *)
(* in one process; torch.cuda.is_available() is an input of each call.     *)
(***************************************************************************)
\* faulty variant: the CPU branch leaves the default tensor type as it is
InitTorchDeviceCpuKeepsDefault(cuda_available) ==
    IF cuda_available
    THEN [print |-> "using CUDA !", device |-> "cuda",
          tensor_type |-> "torch.cuda.FloatTensor"]
    ELSE [print |-> "CUDA not available", device |-> "cpu",
          tensor_type |-> default_tensor_type]

InitTorchDevice(cuda_available) ==
    IF cuda_available
    THEN [print |-> "using CUDA !", device |-> "cuda",
          tensor_type |-> "torch.cuda.FloatTensor"]
    ELSE [print |-> "CUDA not available", device |-> "cpu",
          tensor_type |-> "torch.FloatTensor"]

InitDevice == IdleEnv /\ IdleIdx /\ IdleLoad /\ IdleNet /\ IdleDevice

CallInitTorchDevice(cuda_available) ==
    /\ Len(stdout) < MaxCalls
    /\ LET r == InitTorchDevice(cuda_available)
       IN  /\ stdout' = Append(stdout, r.print)
           /\ default_tensor_type' = r.tensor_type
           /\ device' = r.device
    /\ UNCHANGED <<envVars, idxVars, loadVars, netVars>>

NextDevice == \E cuda_available \in BOOLEAN : CallInitTorchDevice(cuda_available)

SpecDevice == InitDevice /\ [][NextDevice]_vars

\* C10: after any sequence of init_torch_device calls the process-wide
\* default tensor type matches the device the latest call returned: the
\* CUDA float type with the cuda device when CUDA was available, the CPU
\* float type with the cpu device when it was not; every call returns.
C10_DeviceConsistency ==
    (stdout # <<>>) =>
        \/ /\ stdout[Len(stdout)] = "using CUDA !"
           /\ device = "cuda"
           /\ default_tensor_type = "torch.cuda.FloatTensor"
        \/ /\ stdout[Len(stdout)] = "CUDA not available"
           /\ device = "cpu"
           /\ default_tensor_type = "torch.FloatTensor"

\* a call without CUDA that follows a call with CUDA
C10_Witness ==
    /\ Len(stdout) >= 2
    /\ stdout[Len(stdout) - 1] = "using CUDA !"
    /\ stdout[Len(stdout)] = "CUDA not available"
    /\ device = "cpu"

(***************************************************************************)
(* SpecLoad: one run of load_data, lines 19-66.                            *)
(***************************************************************************)
\* lines 23-24: datadir + file name
filedir  == [path |-> "datadir/5_625deg_all_zscored.npy"]
leveldir == [path |-> "datadir/5_625deg_all_level_names.npy"]

\* lines 26-27
NormaliseMmapMode(m) == IF m = Str("None") \/ m = None THEN None ELSE m

IsPath(f) == "path" \in DOMAIN f

\* Dataset_memmap(filedir=..., leveldir=..., start=..., end=..., ...): a view
\* given a path opens the file and holds the new handle, a view given a
\* handle holds that handle.  ops is the list of physical opens so far.
DatasetMemmap(fdir, ldir, s, e, randomize_order, mode, ops) ==
    LET ops1 == IF IsPath(fdir) THEN Append(ops, fdir.path) ELSE ops
        data == IF IsPath(fdir) THEN [handle |-> Len(ops1)] ELSE fdir
        ops2 == IF IsPath(ldir) THEN Append(ops1, ldir.path) ELSE ops1
        lvls == IF IsPath(ldir) THEN [handle |-> Len(ops2)] ELSE ldir
    IN  [view |-> [data |-> data, level_names |-> lvls, start |-> s, end |-> e,
                   randomize_order |-> randomize_order, mmap_mode |-> mode,
                   lead_time |-> lead_time, past_times |-> past_times],
         opened |-> ops2]

\* what each view is constructed from: lines 43, 51, 59
TrainBacking == [filedir |-> filedir, leveldir |-> leveldir]

\* faulty variant: the validation view is given the paths again
ValidationBackingReopens == [filedir |-> filedir, leveldir |-> leveldir]

ValidationBacking == [filedir |-> dg_train.data, leveldir |-> dg_train.level_names]

TestBacking == [filedir |-> dg_train.data, leveldir |-> dg_train.level_names]

YearPairs == {p \in [1..2 -> IndexedYears] : p[1] <= p[2]}
\* the year lists load_data is run on: in-range pairs [first, last], the
\* splits given in the order of their first years (train, validation, test),
\* overlapping or not; and a test list of one year, on which get_year_idx raises
LoadYearLists == YearPairs \cup {<<Epoch>>}

InitLoad ==
    /\ chunks \in ChunkSeqs
    /\ lead_time \in {0, MaxLead}
    /\ past_times \in {<<>>, [j \in 1..(MaxPast + 1) |-> j - MaxPast - 1]}
    /\ mmap_mode \in {Str("None"), Str("r")}
    /\ train_years \in YearPairs
    /\ validation_years \in {p \in YearPairs : train_years[1] <= p[1]}
    /\ test_years \in {p \in LoadYearLists : validation_years[1] <= p[1] \/ Len(p) = 1}
    /\ pc = "start"
    /\ start = None
    /\ end = None
    /\ dg_train = None
    /\ dg_validation = None
    /\ dg_test = None
    /\ opened = <<>>
    /\ IdleIdx /\ IdleNet /\ IdleDevice

\* lines 23-35: the paths, the mmap_mode sentinel, the merged catalog x
LoadBegin ==
    /\ pc = "start"
    /\ mmap_mode' = NormaliseMmapMode(mmap_mode)
    /\ pc' = "train"
    /\ UNCHANGED <<envVars, idxVars, train_years, validation_years, test_years,
                   start, end, dg_train, dg_validation, dg_test, opened,
                   netVars, deviceVars>>

\* start, end = get_year_idx(years); dg = Dataset_memmap(...)
\* returns the new <<pc, start, end, view, opened>>
BuildView(years, backing, randomize_order, nextpc) ==
    LET r == GetYearIdx(chunks, lead_time, past_times, years)
    IN  IF r.raised # "none"
        THEN [pc |-> "raised", start |-> start, end |-> end, view |-> None,
              opened |-> opened]
        ELSE LET d == DatasetMemmap(backing.filedir, backing.leveldir,
                                    r.idx[1], r.idx[2], randomize_order,
                                    mmap_mode, opened)
             IN  [pc |-> nextpc, start |-> r.idx[1], end |-> r.idx[2],
                  view |-> d.view, opened |-> d.opened]

\* lines 42-48
LoadTrain ==
    /\ pc = "train"
    /\ LET b == BuildView(train_years, TrainBacking, TRUE, "validation")
       IN  /\ pc' = b.pc
           /\ start' = b.start
           /\ end' = b.end
           /\ dg_train' = b.view
           /\ opened' = b.opened
    /\ UNCHANGED <<envVars, idxVars, mmap_mode, train_years, validation_years,
                   test_years, dg_validation, dg_test, netVars, deviceVars>>

\* lines 50-56
LoadValidation ==
    /\ pc = "validation"
    /\ LET b == BuildView(validation_years, ValidationBacking, FALSE, "test")
       IN  /\ pc' = b.pc
           /\ start' = b.start
           /\ end' = b.end
           /\ dg_validation' = b.view
           /\ opened' = b.opened
    /\ UNCHANGED <<envVars, idxVars, mmap_mode, train_years, validation_years,
                   test_years, dg_train, dg_test, netVars, deviceVars>>

\* lines 58-64
LoadTest ==
    /\ pc = "test"
    /\ LET b == BuildView(test_years, TestBacking, FALSE, "return")
       IN  /\ pc' = b.pc
           /\ start' = b.start
           /\ end' = b.end
           /\ dg_test' = b.view
           /\ opened' = b.opened
    /\ UNCHANGED <<envVars, idxVars, mmap_mode, train_years, validation_years,
                   test_years, dg_train, dg_validation, netVars, deviceVars>>

\* line 66
LoadReturn ==
    /\ pc = "return"
    /\ pc' = "done"
    /\ UNCHANGED <<envVars, idxVars, mmap_mode, train_years, validation_years,
                   test_years, start, end, dg_train, dg_validation, dg_test,
                   opened, netVars, deviceVars>>

NextLoad == LoadBegin \/ LoadTrain \/ LoadValidation \/ LoadTest \/ LoadReturn

SpecLoad == InitLoad /\ [][NextLoad]_vars

Window(v) == v.start..(v.end - 1)

SplitsOrdered ==
    /\ Len(train_years) = 2 /\ Len(validation_years) = 2 /\ Len(test_years) = 2
    /\ train_years[2] < validation_years[1]
    /\ validation_years[2] < test_years[1]

\* C3: for in-range year ranges given in increasing, non-overlapping order
\* the windows load_data hands to the train, validation and test views are
\* in year order (train end <= validation start, validation end <= test
\* start) and pairwise disjoint.
C3_DisjointOrderedSplits ==
    (pc = "done" /\ SplitsOrdered) =>
        /\ dg_train.end <= dg_validation.start
        /\ dg_validation.end <= dg_test.start
        /\ Window(dg_train) \cap Window(dg_validation) = {}
        /\ Window(dg_validation) \cap Window(dg_test) = {}
        /\ Window(dg_train) \cap Window(dg_test) = {}

\* three non-empty windows of ordered splits, with a runway and a lead time
C3_Witness ==
    /\ pc = "done" /\ SplitsOrdered
    /\ past_times # <<>> /\ lead_time > 0
    /\ dg_train.start < dg_train.end
    /\ dg_validation.start < dg_validation.end
    /\ dg_test.start < dg_test.end

\* C6: the train view is built first and is the only one built from the
\* two file paths; the validation and test views hold the train view's
\* handles; so each of the two files is opened exactly once per run.
C6_SingleOpen ==
    /\ (dg_validation # None => dg_train # None)
    /\ (dg_test # None => dg_validation # None)
    /\ (dg_train = None => opened = <<>>)
    /\ (dg_train # None => opened = <<filedir.path, leveldir.path>>)
    /\ (dg_validation # None =>
            /\ dg_validation.data = dg_train.data
            /\ dg_validation.level_names = dg_train.level_names)
    /\ (pc = "done" =>
            /\ Cardinality({j \in DOMAIN opened : opened[j] = filedir.path}) = 1
            /\ Cardinality({j \in DOMAIN opened : opened[j] = leveldir.path}) = 1
            /\ dg_test.data = dg_train.data
            /\ dg_test.level_names = dg_train.level_names
            /\ ~IsPath(dg_train.data))

\* load_data has returned three views
C6_Witness ==
    /\ pc = "done"
    /\ dg_train # None /\ dg_validation # None /\ dg_test # None
    /\ Len(opened) = 2

(***************************************************************************)
(* SpecNet: one call of named_network, lines 69-174.                       *)
(***************************************************************************)
SupportedNames == {"cnnbn", "Unetbn", "tvfcnResnet50", "simpleResnet", "ConvLSTM"}
ModelNames == SupportedNames \cup {"convlstm", "CNNBN", "lstm"}
Channels == 1..MaxChannels
FilterCounts == (1..(MaxChannels + 1)) \cup {16}
KernelLists == {<<>>, <<3>>, <<3, 3>>}
FilterLists == UNION {[1..n -> FilterCounts] : n \in 0..2}
\* **kwargs: none, or the two ConvLSTM keywords
KwargsSet == {<<>>} \cup [kernel_sizes : KernelLists, filters : FilterLists]

\* the if / elif chain on model_name, lines 70, 83, 98, 120, 147, 171
\* faulty variant: names are matched without regard to case
DispatchAnyCase(name) ==
    CASE name = "cnnbn" \/ name = "CNNBN" -> "cnnbn"
      [] name = "Unetbn" -> "Unetbn"
      [] name = "tvfcnResnet50" -> "tvfcnResnet50"
      [] name = "simpleResnet" -> "simpleResnet"
      [] name = "ConvLSTM" \/ name = "convlstm" -> "ConvLSTM"
      [] OTHER -> "else"

Dispatch(name) ==
    CASE name = "cnnbn" -> "cnnbn"
      [] name = "Unetbn" -> "Unetbn"
      [] name = "tvfcnResnet50" -> "tvfcnResnet50"
      [] name = "simpleResnet" -> "simpleResnet"
      [] name = "ConvLSTM" -> "ConvLSTM"
      [] OTHER -> "else"

\* line 160: assert kwargs['hidden_dim'][-1] == n_output_channels
\* ([-1] of an empty list raises IndexError)
\* faulty variant: the assert reads hidden_dim[0]
FinalHiddenDimCheckFirst(hidden_dim, n_out) ==
    IF hidden_dim = <<>> THEN "IndexError"
    ELSE IF hidden_dim[1] = n_out THEN "pass"
    ELSE "AssertionError"

FinalHiddenDimCheck(hidden_dim, n_out) ==
    IF hidden_dim = <<>> THEN "IndexError"
    ELSE IF hidden_dim[Len(hidden_dim)] = n_out THEN "pass"
    ELSE "AssertionError"

\* lines 151-158: the keyword arguments handed to CircConvLSTM
ConvLSTMKwargs(kw) ==
    [num_layers  |-> Len(kw.kernel_sizes),
     kernel_size |-> [j \in 1..Len(kw.kernel_sizes) |->
                         <<kw.kernel_sizes[j], kw.kernel_sizes[j]>>],
     hidden_dim  |-> kw.filters]

\* The constructors of the model classes.  CircConvLSTM builds a network
\* from matched lists; what it does with lists of different lengths, and
\* what FCNResNet does with the keywords passed through to it, is open.
CircConvLSTMOutcomes(args) ==
    IF Len(args.hidden_dim) = args.num_layers /\ Len(args.kernel_size) = args.num_layers
    THEN {"none"}
    ELSE {"none", "ValueError"}

FCNResNetOutcomes(kw) == {"none", "TypeError"}

InitNet ==
    /\ model_name \in ModelNames
    /\ n_input_channels \in Channels
    /\ n_output_channels \in Channels
    /\ kwargs \in KwargsSet
    /\ net_pc = "start"
    /\ net_raised = "none"
    /\ constructed = <<>>
    /\ returned = None
    /\ IdleEnv /\ IdleIdx /\ IdleLoad /\ IdleDevice

netInputs == <<model_name, n_input_channels, n_output_channels, kwargs>>

\* return model, model_forward (line 174)
NetReturn(model, forward) ==
    /\ constructed' = Append(constructed, model)
    /\ returned' = [model |-> model, forward |-> forward]
    /\ net_raised' = "none"
    /\ net_pc' = "done"

\* an exception leaves named_network
NetRaise(exc) ==
    /\ returned' = None
    /\ net_raised' = exc
    /\ net_pc' = "done"

\* lines 70-81
NetCnnbn ==
    /\ net_pc = "start" /\ Dispatch(model_name) = "cnnbn"
    /\ NetReturn([cls |-> "SimpleCNN",
                  filters |-> <<64, 64, 64, 64, n_output_channels>>,
                  kernels |-> <<5, 5, 5, 5, 5>>,
                  channels |-> n_input_channels,
                  mode |-> "circular"],
                 "model.forward(input)")
    /\ UNCHANGED <<envVars, idxVars, loadVars, netInputs, deviceVars>>

\* lines 83-96
NetUnetbn ==
    /\ net_pc = "start" /\ Dispatch(model_name) = "Unetbn"
    /\ NetReturn([cls |-> "CircUNet",
                  in_channels |-> n_input_channels,
                  filters |-> <<<<32>>, <<32>>, <<32>>, <<32>>>>,
                  kernels |-> <<<<5>>, <<5>>, <<5>>, <<5>>>>,
                  pooling |-> 2,
                  out_channels |-> n_output_channels,
                  mode |-> "circular"],
                 "model.forward(input)")
    /\ UNCHANGED <<envVars, idxVars, loadVars, netInputs, deviceVars>>

\* lines 98-118: fcn_resnet50 with its input and output layers replaced
NetTvfcnResnet50 ==
    /\ net_pc = "start" /\ Dispatch(model_name) = "tvfcnResnet50"
    /\ NetReturn([cls |-> "fcn_resnet50",
                  conv1 |-> [in_channels |-> n_input_channels,
                             out_channels |-> 64, kernel_size |-> <<3, 3>>,
                             stride |-> 1, padding |-> (3 + 1) \div 2],
                  classifier_last |-> [in_channels |-> 512,
                             out_channels |-> n_output_channels,
                             kernel_size |-> <<3, 3>>,
                             stride |-> 1, padding |-> (3 + 1) \div 2]],
                 "model.forward(input)['out']")
    /\ UNCHANGED <<envVars, idxVars, loadVars, netInputs, deviceVars>>

\* lines 120-145: kwargs are passed through to FCNResNet
NetSimpleResnet ==
    /\ net_pc = "start" /\ Dispatch(model_name) = "simpleResnet"
    /\ \E exc \in FCNResNetOutcomes(kwargs) :
          LET model == [cls |-> "FCNResNet",
                        in_channels |-> n_input_channels,
                        out_channels |-> n_output_channels,
                        block |-> "CircBlock",
                        padding_mode |-> "circular",
                        kwargs |-> kwargs]
          IN  IF exc = "none"
              THEN NetReturn(model, "model.forward(input)")
              ELSE /\ constructed' = Append(constructed, model)
                   /\ NetRaise(exc)
    /\ UNCHANGED <<envVars, idxVars, loadVars, netInputs, deviceVars>>

\* lines 147-169
NetConvLSTM ==
    /\ net_pc = "start" /\ Dispatch(model_name) = "ConvLSTM"
    /\ IF "kernel_sizes" \notin DOMAIN kwargs
       THEN /\ NetRaise("KeyError")
            /\ UNCHANGED constructed
       ELSE LET kw == ConvLSTMKwargs(kwargs)
                chk == FinalHiddenDimCheck(kw.hidden_dim, n_output_channels)
                model == [cls |-> "CircConvLSTM",
                          input_dim |-> n_input_channels,
                          padding_mode |-> "circular",
                          num_layers |-> kw.num_layers,
                          kernel_size |-> kw.kernel_size,
                          hidden_dim |-> kw.hidden_dim]
            IN  IF chk # "pass"
                THEN /\ NetRaise(chk)
                     /\ UNCHANGED constructed
                ELSE \E exc \in CircConvLSTMOutcomes(kw) :
                        IF exc = "none"
                        THEN NetReturn(model, "model.forward(input)[1][-1][0]")
                        ELSE /\ constructed' = Append(constructed, model)
                             /\ NetRaise(exc)
    /\ UNCHANGED <<envVars, idxVars, loadVars, netInputs, deviceVars>>

\* lines 171-172
NetUnsupported ==
    /\ net_pc = "start" /\ Dispatch(model_name) = "else"
    /\ NetRaise("NotImplementedError")
    /\ UNCHANGED <<constructed, envVars, idxVars, loadVars, netInputs, deviceVars>>

NextNet ==
    \/ NetCnnbn
    \/ NetUnetbn
    \/ NetTvfcnResnet50
    \/ NetSimpleResnet
    \/ NetConvLSTM
    \/ NetUnsupported

SpecNet == InitNet /\ [][NextNet]_vars

HasConvLSTMKeys == "kernel_sizes" \in DOMAIN kwargs

IsPair(r) == r # None /\ DOMAIN r = {"model", "forward"}

\* C7: ConvLSTM with kernel_sizes = [3, 3] and filters = [16, n_out] returns
\* (model, forward); with a last filter count other than n_output_channels
\* the call ends in AssertionError and CircConvLSTM is never constructed.
C7_ConvLSTMOutputCheck ==
    (net_pc = "done" /\ model_name = "ConvLSTM" /\ HasConvLSTMKeys) =>
        /\ (kwargs.kernel_sizes = <<3, 3>> /\ kwargs.filters = <<16, n_output_channels>>) =>
              /\ net_raised = "none"
              /\ IsPair(returned)
              /\ returned.model.cls = "CircConvLSTM"
              /\ returned.model.hidden_dim = <<16, n_output_channels>>
        /\ (kwargs.filters # <<>>
              /\ kwargs.filters[Len(kwargs.filters)] # n_output_channels) =>
              /\ net_raised = "AssertionError"
              /\ constructed = <<>>
              /\ returned = None

\* the rejected call: filters = [16, n_out + 1]
C7_Witness ==
    /\ net_pc = "done" /\ model_name = "ConvLSTM" /\ HasConvLSTMKeys
    /\ kwargs.kernel_sizes = <<3, 3>>
    /\ kwargs.filters = <<16, n_output_channels + 1>>
    /\ net_raised = "AssertionError"

\* C8: ConvLSTM with kernel_sizes and filters of different lengths fails
\* inside named_network, before CircConvLSTM is constructed.
C8_LengthMismatchFailsFast ==
    (net_pc = "done" /\ model_name = "ConvLSTM" /\ HasConvLSTMKeys
        /\ Len(kwargs.kernel_sizes) # Len(kwargs.filters)) =>
        /\ net_raised # "none"
        /\ constructed = <<>>
        /\ returned = None

\* C9: a model_name outside the five supported names (exact match) ends in
\* NotImplementedError with nothing constructed and nothing returned; a
\* supported name either returns a pair (model, forward) or raises the
\* error of its own configuration check or constructor.
C9_UnsupportedName ==
    (net_pc = "done") =>
        /\ (model_name \notin SupportedNames) =>
              /\ net_raised = "NotImplementedError"
              /\ constructed = <<>>
              /\ returned = None
        /\ (model_name \in SupportedNames) =>
              /\ net_raised # "NotImplementedError"
              /\ (net_raised = "none") =>
                    /\ IsPair(returned)
                    /\ constructed = <<returned.model>>
              /\ (net_raised # "none") => returned = None

\* a name that differs from a supported one only in case was rejected
C9_Witness ==
    /\ net_pc = "done"
    /\ model_name = "convlstm"
    /\ net_raised = "NotImplementedError"

====
